---- MODULE Spec2Model ----
(***************************************************************************)
(* NanGram: a context-free grammar engine.  Elements (Terminal,            *)
(* Substitution, Sequence, Choice, Option, Repetition,                     *)
(* StringLiteralCharacter) parse an input string into every parse tree the *)
(* grammar admits and generate strings under depth/repetition/product      *)
(* bounds.  Strings are sequences of one-character strings; generators are *)
(* the sequence of what they yield plus the exception, if any, that ends   *)
(* them.                                                                   *)
(***************************************************************************)
EXTENDS Integers, Sequences, FiniteSets, TLC

VARIABLES
    rules,            \* Grammar.rules: the name of the rule dictionary in use
    max_products,     \* Grammar.max_products
    max_repetitions,  \* Grammar.max_repetitions
    max_recursions,   \* Grammar.max_recursions
    op,               \* the last operation called
    rule_name,        \* its rule argument
    element,          \* the element it was called on
    string,           \* its input string
    position,         \* its position argument
    depth,            \* its depth argument
    seed,             \* the state of the random source it ran with
    generators,       \* the generator list handed to generate_product
    nodes,            \* the Nodes it yielded, in order
    strings,          \* the strings it yielded, in order
    error,            \* the exception that ended it, or NoError
    get_self,         \* the Node that Node.get was called on
    get_label,        \* its label argument
    get_exclude       \* its exclude argument

vars == <<rules, max_products, max_repetitions, max_recursions, op, rule_name,
          element, string, position, depth, seed, generators, nodes, strings, error,
          get_self, get_label, get_exclude>>

----------------------------------------------------------------------------
\* Bounds of the model.

\* longest input string
MaxLen == 4
\* largest Grammar.max_products explored by generation
MaxProducts == 2
\* largest Grammar.max_repetitions explored by generation
MaxRepetitions == 3
\* largest Grammar.max_recursions explored by generation
MaxRecursions == 3
\* seeds of the random source
MaxSeed == 3
\* longest generator list handed to generate_product directly
MaxGenerators == 2
\* nesting of parse/_generate calls the interpreter's stack allows
MaxCalls == 24

\* Defaults of the Grammar dataclass.
DefaultMaxProducts == 8
DefaultMaxRepetitions == 4
DefaultMaxRecursions == 8

----------------------------------------------------------------------------
\* Python values.

\* None as an optional string (generation_override): <<>> is None, <<s>> is s.
None == <<>>
Some(s) == <<s>>
\* None as a label.
NoLabel == "None"
NoError == "none"

\* Truthiness of an optional string: None and "" are falsy.
TruthyOverride(o) == o # None /\ o[1] # <<>>
\* Truthiness of a label: None and "" are falsy.
TruthyLabel(l) == l \notin {NoLabel, ""}

Min(a, b) == IF a < b THEN a ELSE b

\* string[start:stop] for non-negative indices: both ends clamp to the length.
Slice(s, start, stop) == SubSeq(s, Min(start, Len(s)) + 1, Min(stop, Len(s)))

RECURSIVE Concat(_)
\* ''.join(parts) / chaining of sequences
Concat(parts) == IF parts = <<>> THEN <<>> ELSE Head(parts) \o Concat(Tail(parts))

\* Characters of the inputs: two letters, the string delimiter, the escape.
delimiter == "\""
escape_character == "\\"
Alphabet == {"a", "b", delimiter, escape_character}
\* string.printable, restricted to the alphabet
Printable == <<"a", "b", delimiter, escape_character>>

Strings(n) == UNION {[1..k -> Alphabet] : k \in 0..n}

----------------------------------------------------------------------------
\* Elements: one record shape for the seven variants.

Elem(type, str, name, elements, generation_override, label) ==
    [type |-> type, string |-> str, name |-> name, elements |-> elements,
     generation_override |-> generation_override, label |-> label]

Terminal(str, generation_override, label) ==
    Elem("Terminal", str, "", <<>>, generation_override, label)
Substitution(name, generation_override, label) ==
    Elem("Substitution", <<>>, name, <<>>, generation_override, label)
Sequence(elements, generation_override, label) ==
    Elem("Sequence", <<>>, "", elements, generation_override, label)
Choice(elements, generation_override, label) ==
    Elem("Choice", <<>>, "", elements, generation_override, label)
\* Option.element and Repetition.element are elements[1]
Option(e, generation_override, label) ==
    Elem("Option", <<>>, "", <<e>>, generation_override, label)
Repetition(e, generation_override, label) ==
    Elem("Repetition", <<>>, "", <<e>>, generation_override, label)
StringLiteralCharacter(generation_override, label) ==
    Elem("StringLiteralCharacter", <<>>, "", <<>>, generation_override, label)

\* Unlabelled, not overridden elements.
T(str) == Terminal(str, None, NoLabel)
S(name) == Substitution(name, None, NoLabel)

\* Parse tree node.  Node.grammar and Node.string are the grammar and the
\* input of the call, shared by every node of a parse.
Node(rule, start, stop, children, label) ==
    [rule |-> rule, region |-> [start |-> start, stop |-> stop],
     children |-> children, label |-> label]

\* Node.parsed_string
parsed_string(node, str) == Slice(str, node.region.start, node.region.stop)
\* Node.is_complete
is_complete(node, str) == str = parsed_string(node, str)

RECURSIVE get(_, _, _)
\* Node.get: the nearest branches carrying the label, in order.  A child
\* carrying the label is yielded and not searched; any other child whose
\* label is not excluded is searched by child.get(label), which leaves the
\* exclude argument at its default, the empty list.
get(self, label, exclude) ==
    LET RECURSIVE from(_)
        from(i) ==
            IF i > Len(self.children) THEN <<>>
            ELSE LET child == self.children[i]
                 IN  (IF child.label = label THEN <<child>>
                      ELSE IF child.label \notin exclude THEN get(child, label, {})
                      ELSE <<>>) \o from(i + 1)
    IN  from(1)

----------------------------------------------------------------------------
\* The rule dictionaries the grammars are built from.

RuleSets ==
    [ab |->
        [main |-> Sequence(<<T(<<"a">>), Repetition(T(<<"b">>), None, NoLabel)>>,
                           None, NoLabel)],
     amb |->
        [main |-> Choice(<<Sequence(<<T(<<"a">>), Option(T(<<"b">>), None, NoLabel)>>,
                                    None, NoLabel),
                           T(<<"a">>)>>, None, NoLabel),
         dup  |-> Choice(<<T(<<"a">>), T(<<"a">>)>>, None, NoLabel)],
     lab |->
        [main |-> Sequence(<<Substitution("word", None, "name"),
                             Option(Terminal(<<"b">>, None, "t"), None, "opt")>>,
                           None, "seq"),
         word |-> Choice(<<T(<<"a">>), T(<<"a", "b">>)>>, None, "c"),
         rep  |-> Repetition(T(<<"a">>), None, "r")],
     slc |->
        [main |-> Sequence(<<Option(T(<<"a">>), None, NoLabel),
                             StringLiteralCharacter(None, NoLabel)>>, None, NoLabel),
         str  |-> Sequence(<<T(<<delimiter>>),
                             Repetition(StringLiteralCharacter(None, NoLabel), None, NoLabel),
                             T(<<delimiter>>)>>, None, NoLabel)],
     rec |->
        [main |-> Choice(<<T(<<"a">>), Sequence(<<T(<<"b">>), S("main")>>, None, NoLabel)>>,
                         None, NoLabel),
         even |-> Option(S("odd"), None, NoLabel),
         odd  |-> Sequence(<<T(<<"a">>), S("even")>>, None, NoLabel)],
     ovr |->
        [main |-> Sequence(<<T(<<"a">>), S("ws"), Terminal(<<"b">>, Some(<<>>), NoLabel)>>,
                           None, NoLabel),
         ws   |-> Repetition(Choice(<<T(<<"a">>), T(<<"b">>)>>, None, NoLabel),
                             Some(<<"b">>), NoLabel),
         held |-> Substitution("held", Some(<<"a">>), NoLabel)],
     cyc |->
        [main |-> S("main"),
         ping |-> S("pong"),
         pong |-> Substitution("ping", None, "p"),
         loop |-> Option(S("loop"), None, NoLabel)]]

RuleSetNames == DOMAIN RuleSets

\* A bare rule is one whose whole right-hand side is a Substitution that is
\* not overridden: generating or parsing it enters the named rule directly.
Bare(rs, r) ==
    /\ RuleSets[rs][r].type = "Substitution"
    /\ ~TruthyOverride(RuleSets[rs][r].generation_override)

RECURSIVE BareChain(_, _, _)
\* TRUE when following bare rules from r never leaves them within n steps
BareChain(rs, r, n) ==
    /\ Bare(rs, r)
    /\ (n = 0 \/ BareChain(rs, RuleSets[rs][r].name, n - 1))

\* some cycle of rule references consists of bare rules only
HasBareCycle(rs) == \E r \in DOMAIN RuleSets[rs] : BareChain(rs, r, Cardinality(DOMAIN RuleSets[rs]))

\* Rule dictionaries under which parsing terminates: a cycle of bare rules
\* makes parse call itself at the same position for ever.
ParseRuleSets == {rs \in RuleSetNames : ~HasBareCycle(rs)}

\* The Grammar object of the current state.
Grammar(rs, mp, mrep, mrec) ==
    [rules |-> RuleSets[rs], max_products |-> mp, max_repetitions |-> mrep,
     max_recursions |-> mrec]
grammar == Grammar(rules, max_products, max_repetitions, max_recursions)

RuleNames(rs) == DOMAIN RuleSets[rs]

RECURSIVE Within(_)
\* an element and every element nested in it
Within(e) == {e} \cup UNION {Within(e.elements[i]) : i \in 1..Len(e.elements)}

\* every element of a rule dictionary
SubElements(rs) == UNION {Within(RuleSets[rs][r]) : r \in RuleNames(rs)}

\* the labels a rule dictionary puts on its parse trees
Labels(rs) == {e.label : e \in {x \in SubElements(rs) : TruthyLabel(x.label)}}

----------------------------------------------------------------------------
\* Parsing.  A parse generator is [nodes, error]: the Nodes it yields, in
\* order, and the exception that ends it (NoError when it is exhausted).

Yield(ns) == [nodes |-> ns, error |-> NoError]
Raise(ns, err) == [nodes |-> ns, error |-> err]

\* label_node: each Node wrapped once in a parent carrying the label, with
\* the Node's own region and rule; passed through when the label is falsy.
label_node(gen, label) ==
    IF TruthyLabel(label)
    THEN [nodes |-> [i \in 1..Len(gen.nodes) |->
                        Node(gen.nodes[i].rule, gen.nodes[i].region.start,
                             gen.nodes[i].region.stop, <<gen.nodes[i]>>, label)],
          error |-> gen.error]
    ELSE gen

\* list(repeat(element, n))
repeat(e, n) == [i \in 1..n |-> e]

RECURSIVE ElementParse(_, _, _, _, _, _)
RECURSIVE sequential_choices(_, _, _, _, _, _)
RECURSIVE parse_choice(_, _, _, _, _, _)
RECURSIVE RepetitionCounts(_, _, _, _, _, _, _)

\* Terminal.parse with the label put on a wrapping parent instead
TerminalParse_wrapped(e, g, rule, str, pos) ==
    IF Slice(str, pos, pos + Len(e.string)) = e.string
    THEN label_node(Yield(<<Node(rule, pos, pos + Len(e.string), <<>>, NoLabel)>>), e.label)
    ELSE Yield(<<>>)

\* Terminal.parse
TerminalParse(e, g, rule, str, pos) ==
    IF Slice(str, pos, pos + Len(e.string)) = e.string
    THEN Yield(<<Node(rule, pos, pos + Len(e.string), <<>>, e.label)>>)
    ELSE Yield(<<>>)

\* StringLiteralCharacter.parse
StringLiteralCharacterParse(e, g, rule, str, pos) ==
    IF pos >= Len(str)
    THEN Raise(<<>>, "IndexError")
    ELSE LET character == str[pos + 1]
         IN  IF character = escape_character
             THEN Yield(<<Node(rule, pos + 1, pos + 2, <<>>, e.label)>>)
             ELSE IF character # delimiter
                  THEN Yield(<<Node(rule, pos, pos + 1, <<>>, e.label)>>)
                  ELSE Yield(<<>>)

\* parse_sequence's inner generator: the lists of children, one per consistent
\* assignment; the tail is matched from each head candidate's stop, and an
\* exception in the head or in a tail ends the generator where it is raised.
sequential_choices(elements, g, rule, str, pos, calls) ==
    IF elements = <<>>
    THEN [lists |-> << <<Node(rule, pos, pos, <<>>, NoLabel)>> >>, error |-> NoError]
    ELSE LET head_choices == ElementParse(Head(elements), g, rule, str, pos, calls + 1)
             RECURSIVE Heads(_, _)
             Heads(i, acc) ==
                 IF i > Len(head_choices.nodes)
                 THEN [lists |-> acc, error |-> head_choices.error]
                 ELSE LET head_choice == head_choices.nodes[i]
                          tail_choices == sequential_choices(Tail(elements), g, rule, str,
                                                             head_choice.region.stop, calls)
                          more == acc \o [j \in 1..Len(tail_choices.lists) |->
                                             <<head_choice>> \o tail_choices.lists[j]]
                      IN  IF tail_choices.error # NoError
                          THEN [lists |-> more, error |-> tail_choices.error]
                          ELSE Heads(i + 1, more)
         IN  Heads(1, <<>>)

\* parse_sequence with the region closed at the first child's stop
parse_sequence_first_stop(elements, g, rule, str, pos, calls) ==
    LET choices == sequential_choices(elements, g, rule, str, pos, calls)
    IN  [nodes |-> [i \in 1..Len(choices.lists) |->
                       LET children == choices.lists[i]
                       IN  Node(rule, children[1].region.start,
                                children[1].region.stop, children, NoLabel)],
         error |-> choices.error]

\* parse_sequence
parse_sequence(elements, g, rule, str, pos, calls) ==
    LET choices == sequential_choices(elements, g, rule, str, pos, calls)
    IN  [nodes |-> [i \in 1..Len(choices.lists) |->
                       LET children == choices.lists[i]
                       IN  Node(rule, children[1].region.start,
                                children[Len(children)].region.stop, children, NoLabel)],
         error |-> choices.error]

\* parse_choice: the candidates of each alternative, in alternative order.
parse_choice(elements, g, rule, str, pos, calls) ==
    IF elements = <<>>
    THEN Yield(<<>>)
    ELSE LET first == ElementParse(Head(elements), g, rule, str, pos, calls + 1)
         IN  IF first.error # NoError
             THEN first
             ELSE LET rest == parse_choice(Tail(elements), g, rule, str, pos, calls)
                  IN  [nodes |-> first.nodes \o rest.nodes, error |-> rest.error]

\* Substitution.parse
SubstitutionParse(e, g, rule, str, pos, calls) ==
    label_node(ElementParse(g.rules[e.name], g, e.name, str, pos, calls + 1), e.label)

\* Sequence.parse
SequenceParse(e, g, rule, str, pos, calls) ==
    label_node(parse_sequence(e.elements, g, rule, str, pos, calls), e.label)

\* Choice.parse that stops at the first alternative
ChoiceParse_first_only(e, g, rule, str, pos, calls) ==
    label_node(parse_choice(<<Head(e.elements)>>, g, rule, str, pos, calls), e.label)

\* Choice.parse
ChoiceParse(e, g, rule, str, pos, calls) ==
    label_node(parse_choice(e.elements, g, rule, str, pos, calls), e.label)

\* Option.parse
OptionParse(e, g, rule, str, pos, calls) ==
    LET inner == label_node(ElementParse(e.elements[1], g, rule, str, pos, calls + 1), e.label)
    IN  [nodes |-> <<Node(rule, pos, pos, <<>>, e.label)>> \o inner.nodes,
         error |-> inner.error]

\* Repetition.parse, the loop over n = 1, 2, ...: acc is what was yielded so far.
RepetitionCounts(e, g, rule, str, pos, calls, acc) ==
    LET n == acc.n
        found == parse_sequence(repeat(e.elements[1], n), g, rule, str, pos, calls)
        yielded == acc.nodes \o
                   [i \in 1..Len(found.nodes) |->
                       IF TruthyLabel(e.label)
                       THEN Node(rule, found.nodes[i].region.start,
                                 found.nodes[i].region.stop, <<found.nodes[i]>>, e.label)
                       ELSE found.nodes[i]]
    IN  IF found.error # NoError
        THEN Raise(yielded, found.error)
        ELSE IF Len(found.nodes) = 0
             THEN Yield(yielded)
             ELSE RepetitionCounts(e, g, rule, str, pos, calls, [n |-> n + 1, nodes |-> yielded])

\* Repetition.parse without the zero-occurrence match
RepetitionParse_no_empty(e, g, rule, str, pos, calls) ==
    RepetitionCounts(e, g, rule, str, pos, calls, [n |-> 1, nodes |-> <<>>])

\* Repetition.parse
RepetitionParse(e, g, rule, str, pos, calls) ==
    RepetitionCounts(e, g, rule, str, pos, calls,
                     [n |-> 1, nodes |-> <<Node(rule, pos, pos, <<>>, e.label)>>])

\* Element.parse, dispatched on the variant.  calls is the nesting of parse
\* calls; past MaxCalls the interpreter raises RecursionError.
ElementParse(e, g, rule, str, pos, calls) ==
    IF calls > MaxCalls THEN Raise(<<>>, "RecursionError")
    ELSE CASE e.type = "Terminal" -> TerminalParse(e, g, rule, str, pos)
           [] e.type = "Substitution" -> SubstitutionParse(e, g, rule, str, pos, calls)
           [] e.type = "Sequence" -> SequenceParse(e, g, rule, str, pos, calls)
           [] e.type = "Choice" -> ChoiceParse(e, g, rule, str, pos, calls)
           [] e.type = "Option" -> OptionParse(e, g, rule, str, pos, calls)
           [] e.type = "Repetition" -> RepetitionParse(e, g, rule, str, pos, calls)
           [] e.type = "StringLiteralCharacter" -> StringLiteralCharacterParse(e, g, rule, str, pos)

\* Grammar.parse
GrammarParse(g, str, rule) == ElementParse(g.rules[rule], g, rule, str, 0, 0)

\* filter(predicate, gen): the exception of gen passes through.
FilterComplete(gen, str) ==
    [nodes |-> SelectSeq(gen.nodes, LAMBDA t : is_complete(t, str)), error |-> gen.error]

\* Grammar.parse_complete
GrammarParseComplete(g, str, rule) == FilterComplete(GrammarParse(g, str, rule), str)

----------------------------------------------------------------------------
\* Generation.  A string generator is [strings, error]: the strings it
\* yields, in order, and the exception that ends it.

YieldStrings(ss) == [strings |-> ss, error |-> NoError]
RaiseStrings(ss, err) == [strings |-> ss, error |-> err]

\* get_length of each generator, multiplied: reduce(operator.mul, lengths, 1)
RECURSIVE ProductLength(_)
ProductLength(gens) ==
    IF gens = <<>> THEN 1 ELSE Len(Head(gens).strings) * ProductLength(Tail(gens))

\* itertools.product(*generators): the tuples in odometer order, the last
\* generator varying fastest.
RECURSIVE Product(_)
Product(gens) ==
    IF gens = <<>>
    THEN << <<>> >>
    ELSE LET rest == Product(Tail(gens))
             first == Head(gens).strings
         IN  [k \in 1..(Len(first) * Len(rest)) |->
                 <<first[((k - 1) \div Len(rest)) + 1]>> \o rest[((k - 1) % Len(rest)) + 1]]

\* the sample size without the cap of n
SampleSize_uncapped(n, length) == length

\* min(n, length): the number of indices random_sample draws
SampleSize(n, length) == Min(n, length)

RECURSIVE KSubsets(_, _)
\* the k-element subsets of range(n)
KSubsets(n, k) ==
    IF k = 0 THEN {{}}
    ELSE IF n < k THEN {}
    ELSE KSubsets(n - 1, k) \cup {indices \cup {n - 1} : indices \in KSubsets(n - 1, k - 1)}

\* random.sample(range(length), min(n, length)): every set of indices it can return
Samples(n, length) == KSubsets(length, SampleSize(n, length))

\* The set of indices the random source returns from state sd: one of
\* Samples(n, length) for each sd, every index being drawn for some sd.  The
\* two traversals generate_product makes of its generators see the same draws.
SeededSample(n, length, sd) ==
    {(sd + j) % length : j \in 0..(SampleSize(n, length) - 1)}

\* random_sample: the items whose index was drawn, in the order of the sequence
random_sample(items, indices) ==
    LET kept[i \in 0..Len(items)] ==
            IF i = 0 THEN <<>>
            ELSE IF (i - 1) \in indices THEN Append(kept[i - 1], items[i]) ELSE kept[i - 1]
    IN  kept[Len(items)]

\* the first generator that raises while the lengths are counted, 0 if none does
FirstRaising(gens) ==
    IF \E i \in 1..Len(gens) : gens[i].error # NoError
    THEN CHOOSE i \in 1..Len(gens) :
            /\ gens[i].error # NoError
            /\ \A j \in 1..(i - 1) : gens[j].error = NoError
    ELSE 0

\* generate_product, given the indices random.sample drew.  The lengths are
\* counted first, so a generator that raises ends the product before its
\* first string.
generate_product(g, gens, indices) ==
    IF FirstRaising(gens) # 0
    THEN RaiseStrings(<<>>, gens[FirstRaising(gens)].error)
    ELSE LET products == random_sample(Product(gens), indices)
         IN  YieldStrings([i \in 1..Len(products) |-> Concat(products[i])])

\* generate_product with the indices drawn by the random source in state sd
seeded_product(g, gens, sd) ==
    generate_product(g, gens, SeededSample(g.max_products, ProductLength(gens), sd))

RECURSIVE _generate(_, _, _, _, _)
RECURSIVE ChoiceGenerate(_, _, _, _, _)
RECURSIVE RepetitionGenerateCounts(_, _, _, _, _)

\* Terminal.generate
TerminalGenerate(e) == YieldStrings(<<e.string>>)

\* Substitution.generate
SubstitutionGenerate(e, g, d, sd, calls) ==
    _generate(g.rules[e.name], g, d, sd, calls + 1)

\* Sequence.generate
SequenceGenerate(e, g, d, sd, calls) ==
    seeded_product(g, [i \in 1..Len(e.elements) |->
                          _generate(e.elements[i], g, d + 1, sd, calls + 1)], sd)

\* Choice.generate, over the alternatives that are left
ChoiceGenerate(elements, g, d, sd, calls) ==
    IF elements = <<>>
    THEN YieldStrings(<<>>)
    ELSE LET first == _generate(Head(elements), g, d + 1, sd, calls + 1)
         IN  IF first.error # NoError
             THEN first
             ELSE LET rest == ChoiceGenerate(Tail(elements), g, d, sd, calls)
                  IN  [strings |-> first.strings \o rest.strings, error |-> rest.error]

\* Option.generate
OptionGenerate(e, g, d, sd, calls) ==
    LET inner == _generate(e.elements[1], g, d + 1, sd, calls + 1)
    IN  [strings |-> << <<>> >> \o inner.strings, error |-> inner.error]

\* Repetition.generate, the loop over n in range(1, max_repetitions)
RepetitionGenerateCounts(inner, g, sd, n, yielded) ==
    IF n >= g.max_repetitions
    THEN YieldStrings(yielded)
    ELSE LET prods == seeded_product(g, [i \in 1..n |-> inner], sd)
         IN  IF prods.error # NoError
             THEN RaiseStrings(yielded \o prods.strings, prods.error)
             ELSE RepetitionGenerateCounts(inner, g, sd, n + 1, yielded \o prods.strings)

\* Repetition.generate
RepetitionGenerate(e, g, d, sd, calls) ==
    RepetitionGenerateCounts(_generate(e.elements[1], g, d + 1, sd, calls + 1),
                             g, sd, 1, << <<>> >>)

\* StringLiteralCharacter.escape of a character
escape(c) == <<escape_character, c>>

\* StringLiteralCharacter.generate: one entry of the character list, drawn by
\* random.choice, RETURNED as a string; the caller iterates over it and so
\* receives its characters one by one.
StringLiteralCharacterGenerate(e, sd) ==
    LET characters == [i \in 1..Len(Printable) |->
                          IF Printable[i] \in {escape_character, delimiter}
                          THEN escape(Printable[i]) ELSE <<Printable[i]>>]
        choice == characters[(sd % Len(characters)) + 1]
    IN  YieldStrings([i \in 1..Len(choice) |-> <<choice[i]>>])

\* the variant's generate
generate(e, g, d, sd, calls) ==
    CASE e.type = "Terminal" -> TerminalGenerate(e)
      [] e.type = "Substitution" -> SubstitutionGenerate(e, g, d, sd, calls)
      [] e.type = "Sequence" -> SequenceGenerate(e, g, d, sd, calls)
      [] e.type = "Choice" -> ChoiceGenerate(e.elements, g, d, sd, calls)
      [] e.type = "Option" -> OptionGenerate(e, g, d, sd, calls)
      [] e.type = "Repetition" -> RepetitionGenerate(e, g, d, sd, calls)
      [] e.type = "StringLiteralCharacter" -> StringLiteralCharacterGenerate(e, sd)

\* _generate that never looks at generation_override
_generate_ignoring_override(e, g, d, sd, calls) ==
    IF calls > MaxCalls THEN RaiseStrings(<<>>, "RecursionError")
    ELSE IF d < g.max_recursions
         THEN generate(e, g, d, sd, calls)
         ELSE YieldStrings(<<>>)

\* _generate without the recursion cutoff
_generate_without_cutoff(e, g, d, sd, calls) ==
    IF calls > MaxCalls THEN RaiseStrings(<<>>, "RecursionError")
    ELSE IF TruthyOverride(e.generation_override)
         THEN YieldStrings(<<e.generation_override[1]>>)
         ELSE generate(e, g, d, sd, calls)

\* Element._generate.  calls is the nesting of _generate calls; past MaxCalls
\* the interpreter raises RecursionError.
_generate(e, g, d, sd, calls) ==
    IF calls > MaxCalls THEN RaiseStrings(<<>>, "RecursionError")
    ELSE IF d < g.max_recursions
         THEN IF TruthyOverride(e.generation_override)
              THEN YieldStrings(<<e.generation_override[1]>>)
              ELSE generate(e, g, d, sd, calls)
         ELSE YieldStrings(<<>>)

\* Grammar.generate
GrammarGenerate(g, rule, sd) == _generate(g.rules[rule], g, 0, sd, 0)

----------------------------------------------------------------------------
\* The parsing interface as a state machine: a Grammar is constructed, then
\* one of its operations is called on inputs drawn from the bounded sets.

NoElement == T(<<>>)

InitCall ==
    /\ op = "init"
    /\ rule_name = "main"
    /\ element = NoElement
    /\ string = <<>>
    /\ position = 0
    /\ depth = 0
    /\ seed = 0
    /\ generators = <<>>
    /\ nodes = <<>>
    /\ strings = <<>>
    /\ error = NoError
    /\ get_self = None
    /\ get_label = NoLabel
    /\ get_exclude = {}

\* A call is made on a freshly constructed Grammar.
Idle == op = "init"

\* Grammar(rules) with the default limits
Init ==
    /\ rules \in ParseRuleSets
    /\ max_products = DefaultMaxProducts
    /\ max_repetitions = DefaultMaxRepetitions
    /\ max_recursions = DefaultMaxRecursions
    /\ InitCall

GrammarFields == <<rules, max_products, max_repetitions, max_recursions>>
GetFields == <<get_self, get_label, get_exclude>>

\* grammar.parse(s, r)
Parse(s, r) ==
    LET gen == GrammarParse(grammar, s, r)
    IN  /\ Idle
        /\ op' = "parse"
        /\ rule_name' = r
        /\ element' = grammar.rules[r]
        /\ string' = s
        /\ position' = 0
        /\ nodes' = gen.nodes
        /\ error' = gen.error
        /\ UNCHANGED <<GrammarFields, GetFields, depth, seed, generators, strings>>

\* grammar.parse_complete(s, r)
ParseComplete(s, r) ==
    LET gen == GrammarParseComplete(grammar, s, r)
    IN  /\ Idle
        /\ op' = "parse_complete"
        /\ rule_name' = r
        /\ element' = grammar.rules[r]
        /\ string' = s
        /\ position' = 0
        /\ nodes' = gen.nodes
        /\ error' = gen.error
        /\ UNCHANGED <<GrammarFields, GetFields, depth, seed, generators, strings>>

\* e.parse(grammar, r, s, p) on an element of the grammar
ParseElement(e, r, s, p) ==
    LET gen == ElementParse(e, grammar, r, s, p, 0)
    IN  /\ Idle
        /\ op' = "element_parse"
        /\ rule_name' = r
        /\ element' = e
        /\ string' = s
        /\ position' = p
        /\ nodes' = gen.nodes
        /\ error' = gen.error
        /\ UNCHANGED <<GrammarFields, GetFields, depth, seed, generators, strings>>

Next ==
    \/ Idle /\ \E s \in Strings(MaxLen), r \in RuleNames(rules) : Parse(s, r)
    \/ Idle /\ \E s \in Strings(MaxLen), r \in RuleNames(rules) : ParseComplete(s, r)
    \/ Idle /\ \E e \in SubElements(rules), s \in Strings(MaxLen), p \in 0..MaxLen :
                  p <= Len(s) /\ ParseElement(e, "main", s, p)

Spec == Init /\ [][Next]_vars

----------------------------------------------------------------------------
\* The generation interface as a state machine: a Grammar is constructed with
\* limits drawn from the bounded ranges, one generation operation is called,
\* and a generated string is parsed back as the example driver does.

InitGen ==
    /\ rules \in RuleSetNames
    /\ max_products \in 1..MaxProducts
    /\ max_repetitions \in 1..MaxRepetitions
    /\ max_recursions \in 1..MaxRecursions
    /\ InitCall

\* grammar.generate(r), the random source in state sd
Generate(r, sd) ==
    LET gen == GrammarGenerate(grammar, r, sd)
    IN  /\ Idle
        /\ op' = "generate"
        /\ rule_name' = r
        /\ element' = grammar.rules[r]
        /\ seed' = sd
        /\ strings' = gen.strings
        /\ error' = gen.error
        /\ UNCHANGED <<GrammarFields, GetFields, string, position, depth, generators, nodes>>

\* e._generate(grammar, d) on an element of the grammar
GenerateElement(e, d, sd) ==
    LET gen == _generate(e, grammar, d, sd, 0)
    IN  /\ Idle
        /\ op' = "_generate"
        /\ element' = e
        /\ depth' = d
        /\ seed' = sd
        /\ strings' = gen.strings
        /\ error' = gen.error
        /\ UNCHANGED <<GrammarFields, GetFields, rule_name, string, position, generators, nodes>>

\* Finite generators for generate_product: sequences of strings.
GeneratorPool ==
    {<<>>, << <<"a">> >>, << <<"a">>, <<"b">> >>, << <<>>, <<"a", "b">>, <<"b">> >>}
GeneratorLists == UNION {[1..k -> GeneratorPool] : k \in 0..MaxGenerators}

\* generate_product(grammar, lambda: gens), random.sample returning indices
GenerateProduct(gens, indices) ==
    LET gen == generate_product(grammar, [i \in 1..Len(gens) |-> YieldStrings(gens[i])], indices)
    IN  /\ Idle
        /\ op' = "generate_product"
        /\ generators' = gens
        /\ strings' = gen.strings
        /\ error' = gen.error
        /\ UNCHANGED <<GrammarFields, GetFields, rule_name, element, string, position, depth, seed, nodes>>

\* for tree in grammar.parse_complete(expression, rule): the i-th generated
\* string is parsed back under the rule it was generated from
Reparse(i) ==
    LET gen == GrammarParseComplete(grammar, strings[i], rule_name)
    IN  /\ op = "generate"
        /\ op' = "reparse"
        /\ string' = strings[i]
        /\ nodes' = gen.nodes
        /\ error' = gen.error
        /\ UNCHANGED <<GrammarFields, GetFields, rule_name, element, position, depth, seed,
                       generators, strings>>

NextGen ==
    \/ Idle /\ \E r \in RuleNames(rules), sd \in 0..MaxSeed : Generate(r, sd)
    \/ Idle /\ \E e \in SubElements(rules), d \in 0..(MaxRecursions + 1), sd \in 0..MaxSeed :
                  GenerateElement(e, d, sd)
    \/ op = "generate" /\ \E i \in 1..Len(strings) : Reparse(i)

SpecGen == InitGen /\ [][NextGen]_vars

----------------------------------------------------------------------------
\* generate_product called directly on lists of finite generators.  It reads
\* nothing of the grammar but max_products.

InitProduct ==
    /\ rules = "ab"
    /\ max_products \in 1..MaxProducts
    /\ max_repetitions = DefaultMaxRepetitions
    /\ max_recursions = DefaultMaxRecursions
    /\ InitCall

NextProduct ==
    Idle /\ \E gens \in GeneratorLists :
               \E indices \in Samples(max_products,
                                      ProductLength([i \in 1..Len(gens) |-> YieldStrings(gens[i])])) :
                  GenerateProduct(gens, indices)

SpecProduct == InitProduct /\ [][NextProduct]_vars

----------------------------------------------------------------------------
\* Label lookup as parse_bnf does it: a string is parsed, then Node.get is
\* called on one of the trees with a label and a list of excluded labels.

\* longest exclude list
MaxExclude == 1

ExcludeLists(rs) == {X \in SUBSET Labels(rs) : Cardinality(X) <= MaxExclude}

\* nodes[i].get(l, X), collected into a list
Get(i, l, X) ==
    /\ op = "parse"
    /\ op' = "get"
    /\ get_self' = nodes[i]
    /\ get_label' = l
    /\ get_exclude' = X
    /\ nodes' = get(nodes[i], l, X)
    /\ UNCHANGED <<GrammarFields, rule_name, element, string, position, depth, seed,
                   generators, strings, error>>

NextGet ==
    \/ Idle /\ \E s \in Strings(MaxLen), r \in RuleNames(rules) : Parse(s, r)
    \/ op = "parse" /\ \E i \in 1..Len(nodes), l \in Labels(rules), X \in ExcludeLists(rules) :
                          Get(i, l, X)

SpecGet == Init /\ [][NextGet]_vars

----------------------------------------------------------------------------
\* Properties.

ParseOps == {"parse", "parse_complete", "element_parse"}

\* some element of the rule dictionary carries a generation override
HasOverride(rs) == \E e \in SubElements(rs) : e.generation_override # None

\* C1: round trip.  Under a grammar without generation overrides, every
\* string yielded by generate(rule) parses back: parse_complete(s, rule)
\* yields at least one tree, and the tree's matched substring is s.
RoundTrip ==
    (op = "reparse" /\ ~HasOverride(rules)) =>
        /\ Len(nodes) >= 1
        /\ parsed_string(nodes[1], string) = string

\* C2: completeness filter.  parse_complete(s, rule) is parse(s, rule)
\* restricted, in the same order, to the trees whose region has start = 0 and
\* stop = len(s); it adds no tree.
CompletenessFilter ==
    op = "parse_complete" =>
        nodes = SelectSeq(GrammarParse(grammar, string, rule_name).nodes,
                          LAMBDA t : t.region.start = 0 /\ t.region.stop = Len(string))

\* the children of a node follow each other without gap or overlap
Contiguous(children) ==
    \A i \in 1..(Len(children) - 1) : children[i + 1].region.start = children[i].region.stop

\* C3: sequence composition.  Every Node of a two-element Sequence parsed at
\* position p starts at p, its first child starts at p, its last child stops
\* where the Node stops, and each child starts where the previous one stops.
SequenceComposition ==
    (op = "element_parse" /\ element.type = "Sequence" /\ Len(element.elements) = 2) =>
        \A i \in 1..Len(nodes) :
            LET n == nodes[i]
            IN  /\ n.region.start = position
                /\ n.children # <<>>
                /\ n.children[1].region.start = position
                /\ n.children[Len(n.children)].region.stop = n.region.stop
                /\ Contiguous(n.children)

\* 'a' followed by k >= 0 copies of 'b'
IsAThenBs(s) == Len(s) >= 1 /\ s[1] = "a" /\ \A i \in 2..Len(s) : s[i] = "b"

\* the tree of 'a' b^k under main = Sequence([Terminal('a'), Repetition(Terminal('b'))]):
\* the root [0, k+1) holds the 'a' at [0, 1), the repetition over [1, k+1) whose
\* children are the b's at [1,2), [2,3), ... and the end-of-sequence placeholder
\* (no child when k = 0), and the root's own placeholder.
TreeOfAThenBs(k) ==
    Node("main", 0, k + 1,
         <<Node("main", 0, 1, <<>>, NoLabel),
           IF k = 0
           THEN Node("main", 1, 1, <<>>, NoLabel)
           ELSE Node("main", 1, k + 1,
                     [i \in 1..(k + 1) |->
                         IF i <= k THEN Node("main", i, i + 1, <<>>, NoLabel)
                         ELSE Node("main", k + 1, k + 1, <<>>, NoLabel)],
                     NoLabel),
           Node("main", k + 1, k + 1, <<>>, NoLabel)>>,
         NoLabel)

\* C4: under {'main': Sequence([Terminal('a'), Repetition(Terminal('b'))])},
\* parse_complete(s, 'main') yields exactly one tree when s is 'a' followed
\* by k >= 0 b's, with the 'a' at [0,1) and one repetition child per b at
\* [1,2), [2,3), ..., and yields no tree for any other s.
ConcreteScenario ==
    (op = "parse_complete" /\ rules = "ab" /\ rule_name = "main") =>
        /\ error = NoError
        /\ nodes = IF IsAThenBs(string) THEN <<TreeOfAThenBs(Len(string) - 1)>> ELSE <<>>

\* C4 witness: "abb" was parsed into its one tree
ConcreteScenarioWitness ==
    /\ op = "parse_complete" /\ rules = "ab" /\ rule_name = "main"
    /\ string = <<"a", "b", "b">>
    /\ Len(nodes) = 1
    /\ nodes[1].region = [start |-> 0, stop |-> 3]

\* C5: generation dispatch, as claimed.  An element whose generation_override
\* is set yields exactly the override from _generate at every depth.
GenerationDispatch ==
    (op = "_generate" /\ element.generation_override # None) =>
        /\ strings = <<element.generation_override[1]>>
        /\ error = NoError

\* C5, amended: the recursion cutoff comes first.  At depth >= max_recursions
\* _generate yields nothing, override or not; below it a non-empty override
\* is the one string yielded, and an empty-string override counts as none.
GenerationDispatchBelowCutoff ==
    (op = "_generate" /\ element.generation_override # None) =>
        /\ error = NoError
        /\ depth >= max_recursions => strings = <<>>
        /\ (depth < max_recursions /\ element.generation_override[1] # <<>>) =>
               strings = <<element.generation_override[1]>>
        /\ (depth < max_recursions /\ element.generation_override[1] = <<>>) =>
               strings = generate(element, grammar, depth, seed, 0).strings

\* C5 witness: an overridden element was asked at the cutoff depth and yielded nothing
GenerationDispatchWitness ==
    /\ op = "_generate"
    /\ TruthyOverride(element.generation_override)
    /\ depth >= max_recursions
    /\ strings = <<>>

\* C6: bounded generation, as claimed.  generate(rule) ends without an
\* exception under every grammar whose rule references are defined.
BoundedGeneration == op = "generate" => error = NoError

\* C6, amended: generate(rule) ends without an exception under every grammar
\* in which no cycle of rule references consists of bare Substitutions only.
BoundedGenerationWithoutBareCycle ==
    (op = "generate" /\ ~HasBareCycle(rules)) => error = NoError

\* C6 witness: generation went through the mutually recursive rules even and
\* odd and came back with the string that needs one round of the recursion
BoundedGenerationWitness ==
    /\ op = "generate" /\ rules = "rec" /\ rule_name = "even"
    /\ error = NoError
    /\ \E i \in 1..Len(strings) : strings[i] = <<"a">>

\* the strings that take one item of each generator, in generator order
RECURSIVE Combinations(_)
Combinations(gens) ==
    IF gens = <<>> THEN {<<>>}
    ELSE {x \o rest : x \in {Head(gens)[i] : i \in 1..Len(Head(gens))},
                      rest \in Combinations(Tail(gens))}

RECURSIVE LengthProduct(_)
LengthProduct(gens) == IF gens = <<>> THEN 1 ELSE Len(Head(gens)) * LengthProduct(Tail(gens))

\* C7: sampling cap.  generate_product yields at most max_products strings and
\* at most as many as there are combinations, and every string it yields is
\* the concatenation of one item of each sequence, in sequence order.
SamplingCap ==
    op = "generate_product" =>
        /\ error = NoError
        /\ Len(strings) <= max_products
        /\ Len(strings) <= LengthProduct(generators)
        /\ \A i \in 1..Len(strings) : strings[i] \in Combinations(generators)

\* C7 witness: more combinations than max_products, and max_products strings yielded
SamplingCapWitness ==
    /\ op = "generate_product"
    /\ LengthProduct(generators) > max_products
    /\ Len(strings) = max_products

\* C8: repetition base case.  The first candidate of Repetition(e).parse at
\* position p is the zero-width match [p, p), whatever e and the label are.
RepetitionBaseCase ==
    (op = "element_parse" /\ element.type = "Repetition") =>
        /\ Len(nodes) >= 1
        /\ nodes[1].region = [start |-> position, stop |-> position]

\* C8 witness: a labelled Repetition parsed past position 0 matched its
\* element at least once after the zero-width match
RepetitionBaseCaseWitness ==
    /\ op = "element_parse" /\ element.type = "Repetition"
    /\ TruthyLabel(element.label)
    /\ position > 0
    /\ Len(nodes) >= 2

\* C9: choice union.  The candidates of Choice([e1, e2]).parse at a position
\* are the candidates of e1.parse there followed by those of e2.parse there,
\* none removed or merged; an exception in e1 ends the Choice before e2.
ChoiceUnion ==
    (op = "element_parse" /\ element.type = "Choice" /\ Len(element.elements) = 2
        /\ ~TruthyLabel(element.label)) =>
        LET first == ElementParse(element.elements[1], grammar, rule_name, string, position, 0)
            second == ElementParse(element.elements[2], grammar, rule_name, string, position, 0)
        IN  IF first.error # NoError
            THEN nodes = first.nodes /\ error = first.error
            ELSE nodes = first.nodes \o second.nodes /\ error = second.error

\* C9 witness: both alternatives matched and two candidates have the same span
ChoiceUnionWitness ==
    /\ op = "element_parse" /\ element.type = "Choice" /\ Len(element.elements) = 2
    /\ ~TruthyLabel(element.label)
    /\ \E i, j \in 1..Len(nodes) : i < j /\ nodes[i].region = nodes[j].region

\* C10: parse exhaustion is not an error.  parse, parse_complete and an
\* element's parse at any position 0 <= p <= len(s) end without an exception.
ParseNeverFails == op \in ParseOps => error = NoError

RECURSIVE OutsideOf(_, _)
\* the descendants of a node reached without passing through a descendant
\* whose label is in X
OutsideOf(self, X) ==
    UNION {{self.children[i]} \cup (IF self.children[i].label \in X THEN {}
                                     ELSE OutsideOf(self.children[i], X))
           : i \in 1..Len(self.children)}

\* C11: Node.get(L, X) yields only nodes labelled L that are reached without
\* passing through any descendant whose label is in X, at any depth of the
\* tree: a node labelled L that lies below a node whose label is in X is
\* never yielded.
LabelLookupExclusion ==
    op = "get" =>
        \A i \in 1..Len(nodes) :
            /\ nodes[i].label = get_label
            /\ nodes[i] \in OutsideOf(get_self, get_exclude)

\* the element without its label
Unlabelled(e) == [e EXCEPT !.label = NoLabel]

\* the candidates of the last Element.parse call had the element no label
UnlabelledNodes ==
    ElementParse(Unlabelled(element), grammar, rule_name, string, position, 0).nodes

\* a parent Node with the label, the region and rule of c, and c as only child
WrapOf(c, l) == Node(c.rule, c.region.start, c.region.stop, <<c>>, l)

\* C12: for every element variant (Terminal, Substitution, Sequence, Choice,
\* Option, Repetition) with a non-empty label, every candidate parse yields
\* is a Node carrying that label whose region and rule equal those of its
\* single child, the child being the unlabelled result Node: the label is
\* applied by wrapping exactly once, never by setting it on the result Node.
LabelWrapping ==
    (op = "element_parse" /\ TruthyLabel(element.label)) =>
        /\ Len(nodes) = Len(UnlabelledNodes)
        /\ \A i \in 1..Len(nodes) : nodes[i] = WrapOf(UnlabelledNodes[i], element.label)

\* the candidates whose Node the element constructs itself: the match of a
\* Terminal and the zero-width first candidate of an Option or a Repetition
SetsLabelItself(e, i) ==
    \/ e.type = "Terminal"
    \/ e.type \in {"Option", "Repetition"} /\ i = 1

\* C12 (amended): with a non-empty label, Substitution, Sequence and Choice,
\* the matches of an Option's inner element and the matches of one or more
\* copies of a Repetition's element are wrapped exactly once in a parent
\* carrying the label, with the region and rule of its single child, the
\* candidate the element would yield without the label; a Terminal's match
\* and the zero-width first candidate of an Option or a Repetition carry the
\* label on the result Node itself, which has no children.
LabelWrappingOrDirect ==
    (op = "element_parse" /\ TruthyLabel(element.label)) =>
        /\ Len(nodes) = Len(UnlabelledNodes)
        /\ \A i \in 1..Len(nodes) :
              IF SetsLabelItself(element, i)
              THEN /\ nodes[i] = [UnlabelledNodes[i] EXCEPT !.label = element.label]
                   /\ nodes[i].children = <<>>
              ELSE nodes[i] = WrapOf(UnlabelledNodes[i], element.label)

\* a labelled Option matched its inner element: its candidates are the
\* zero-width match and the wrapped inner match
LabelWrappingWitness ==
    /\ op = "element_parse"
    /\ element.type = "Option"
    /\ TruthyLabel(element.label)
    /\ Len(nodes) = 2
    /\ nodes[1].children = <<>>
    /\ Len(nodes[2].children) = 1

RECURSIVE ParsedUnder(_, _, _, _)
\* the rule names the candidates of e.parse(g, rule, ...) are parsed under:
\* a Substitution hands the parse to the referenced rule under that rule's
\* name, and a Choice and an Option pass candidates of their inner elements
\* on; n bounds the chain of references followed.
ParsedUnder(e, g, rule, n) ==
    CASE e.type = "Substitution" ->
            IF n = 0 THEN {} ELSE ParsedUnder(g.rules[e.name], g, e.name, n - 1)
      [] e.type = "Choice" ->
            UNION {ParsedUnder(e.elements[i], g, rule, n) : i \in 1..Len(e.elements)}
      [] e.type = "Option" ->
            {rule} \cup ParsedUnder(e.elements[1], g, rule, n)
      [] OTHER -> {rule}

\* C13: candidates are rooted at the parse position: for every element
\* variant (StringLiteralCharacter on an escaped character included), every
\* input s and position p, every Node yielded by parse(grammar, rule, s, p)
\* has region.start = p and p <= region.stop <= len(s), and is tagged with
\* the rule name it was parsed under.
RootedAtPosition ==
    op = "element_parse" =>
        \A i \in 1..Len(nodes) :
            /\ nodes[i].region.start = position
            /\ position <= nodes[i].region.stop
            /\ nodes[i].region.stop <= Len(string)
            /\ nodes[i].rule \in ParsedUnder(element, grammar, rule_name,
                                              Cardinality(RuleNames(rules)))

====
